---- MODULE Spec2Model ----
(***************************************************************************)
(* The catch-all SMTP test server of backend/test-smtp-server.py.          *)
(*                                                                         *)
(* CatchAllSMTP subclasses smtpd.SMTPServer and overrides process_message; *)
(* the protocol dialogue is the inherited smtpd.SMTPChannel state machine  *)
(* and the scheduling is the single-threaded asyncore.loop() the script    *)
(* enters.  The model covers the listener, the per-connection channels,    *)
(* the readiness handlers of the loop and the capture sink.                *)
(*                                                                         *)
(* Text is a sequence of runs [k, n]: n repetitions of the unit k.  The    *)
(* peers send whole lines; a line is the text before its CRLF.  The        *)
(* timestamp of an entry (datetime.now()) is not modelled.                 *)
(***************************************************************************)
EXTENDS Integers, Sequences, FiniteSets, TLC

\* ---- bounds of the model ------------------------------------------------
MaxConn == 2      \* connection slots the listener may accept
MaxChunk == 2     \* lines one recv() may deliver to a channel
MaxBody == 1      \* lines a peer sends in one data transfer before "."
MaxRcpt == 2      \* recipients a peer declares in one transaction
MaxMsgs == 2      \* end-of-data markers processed in one run

\* ---- program constants --------------------------------------------------
DATA_SIZE_DEFAULT == 33554432
command_size_limit == 512
PreviewLen == 500
TraceLen == 1000

Conns == 1..MaxConn
Senders == {"a@x.com"}
Rcpts == {"b@y.com", "c@y.com"}
Addrs == Senders \cup Rcpts
Verbs == {"HELO", "MAIL", "RCPT", "DATA", "QUIT", "RSET"}

\* ---- text ---------------------------------------------------------------
Run(k, n) == [k |-> k, n |-> n]
U(k) == Run(k, 1)
CRLF == U("CRLF")
LF == U("LF")
DOT == U(".")

\* bytes of one unit: "E" is a two-byte UTF-8 character, "B" a byte that is
\* not valid UTF-8, "R" the replacement character U+FFFD
UnitBytes(k) ==
    CASE k = "E" -> 2
      [] k = "CRLF" -> 2
      [] k = "R" -> 3
      [] k = "Hello world" -> 11
      [] k = "HELO" -> 4
      [] k = "MAIL" -> 10
      [] k = "RCPT" -> 8
      [] k = "DATA" -> 4
      [] k = "QUIT" -> 4
      [] k = "RSET" -> 4
      [] k \in Addrs -> 10
      [] OTHER -> 1

\* characters of one unit of decoded text
UnitChars(k) ==
    CASE k = "CRLF" -> 2
      [] k = "Hello world" -> 11
      [] k = "HELO" -> 4
      [] k = "MAIL" -> 10
      [] k = "RCPT" -> 8
      [] k = "DATA" -> 4
      [] k = "QUIT" -> 4
      [] k = "RSET" -> 4
      [] k \in Addrs -> 10
      [] OTHER -> 1

RECURSIVE ByteLen(_)
ByteLen(t) ==
    IF t = <<>> THEN 0 ELSE Head(t).n * UnitBytes(Head(t).k) + ByteLen(Tail(t))

RECURSIVE CharLen(_)
CharLen(t) ==
    IF t = <<>> THEN 0 ELSE Head(t).n * UnitChars(Head(t).k) + CharLen(Tail(t))

\* a decode that drops the bytes that are not UTF-8
RECURSIVE Decode_Ignore(_)
Decode_Ignore(t) ==
    IF t = <<>> THEN <<>>
    ELSE (IF Head(t).k = "B" THEN <<>> ELSE <<Head(t)>>) \o Decode_Ignore(Tail(t))

\* bytes.decode('utf-8', errors='replace')
RECURSIVE Decode(_)
Decode(t) ==
    IF t = <<>> THEN <<>>
    ELSE <<(IF Head(t).k = "B" THEN Run("R", Head(t).n) ELSE Head(t))>> \o Decode(Tail(t))

\* text[:m], m counted in characters; the runs of the model's multi-character
\* units are never cut inside a unit
RECURSIVE Slice(_, _)
Slice(t, m) ==
    IF t = <<>> \/ m <= 0 THEN <<>>
    ELSE LET h == Head(t)
             w == UnitChars(h.k)
         IN IF h.n * w <= m THEN <<h>> \o Slice(Tail(t), m - h.n * w)
            ELSE IF m \div w = 0 THEN <<>>
            ELSE <<Run(h.k, m \div w)>>

\* bytes.find(sub): the first index (0-based) at which sub occurs, -1 if none
RECURSIVE FindFrom(_, _, _)
FindFrom(buf, sub, i) ==
    IF i + Len(sub) > Len(buf) THEN -1
    ELSE IF SubSeq(buf, i + 1, i + Len(sub)) = sub THEN i
    ELSE FindFrom(buf, sub, i + 1)

Find(buf, sub) == FindFrom(buf, sub, 0)

\* asynchat.find_prefix_at_end: the length of the longest proper prefix of
\* needle that haystack ends with
RECURSIVE PrefixAtEnd(_, _, _)
PrefixAtEnd(haystack, needle, l) ==
    IF l = 0 THEN 0
    ELSE IF l <= Len(haystack)
            /\ SubSeq(haystack, Len(haystack) - l + 1, Len(haystack)) = SubSeq(needle, 1, l)
         THEN l
    ELSE PrefixAtEnd(haystack, needle, l - 1)

find_prefix_at_end(haystack, needle) == PrefixAtEnd(haystack, needle, Len(needle) - 1)

\* text.split(sep) for a separator of one unit; cur is the piece being read
RECURSIVE Split(_, _, _)
Split(t, sep, cur) ==
    IF t = <<>> THEN <<cur>>
    ELSE IF Head(t) = sep THEN <<cur>> \o Split(Tail(t), sep, <<>>)
    ELSE Split(Tail(t), sep, Append(cur, Head(t)))

\* sep.join(ls)
RECURSIVE Join(_, _)
Join(ls, sep) ==
    IF ls = <<>> THEN <<>>
    ELSE IF Len(ls) = 1 THEN ls[1]
    ELSE ls[1] \o <<sep>> \o Join(Tail(ls), sep)

\* ---- lines the peers send -------------------------------------------------
LHelo == <<U("HELO"), U("h")>>
LMail(a) == <<U("MAIL"), U(a)>>
LRcpt(a) == <<U("RCPT"), U(a)>>
LData == <<U("DATA")>>
LQuit == <<U("QUIT")>>
LRset == <<U("RSET")>>
LText == <<U("x")>>
LDot == <<DOT>>
LDotDot == <<DOT, DOT>>
LBad == <<U("B")>>
LNonAscii == <<U("E")>>
LBulk == <<Run("x", DATA_SIZE_DEFAULT + 1)>>
LDotText == <<DOT, U("x")>>
LWide == <<U("E"), U("B")>>
LLong == <<Run("x", PreviewLen + 100)>>
LHello == <<U("Hello world")>>

\* what a peer that sends any line may type at the command prompt (it names
\* one recipient address, any number of times), and in a data transfer (there
\* the line QUIT is text like any other)
CmdLines ==
    {LHelo, LData, LQuit, LRset, LText, LBad, LNonAscii, LBulk}
        \cup {LMail(a) : a \in Senders} \cup {LRcpt("b@y.com")}

DataLines == {LQuit, LDot, LBulk}

\* the lines of a message body
TextLines == {LText, LDot, LDotDot, LDotText, LWide, LLong, LHello}

\* the next line of a peer that follows the dialogue with one recipient and
\* a body of one line, and quits between two messages
PlainLines(ch) ==
    IF ch.smtp_state = "DATA"
    THEN IF ch.received_lines = <<>> /\ ch.ac_in_buffer = <<>> THEN {LText} ELSE {LDot}
    ELSE (IF ch.seen_greeting = "" THEN {LHelo}
          ELSE IF ch.mailfrom = "" THEN {LQuit} \cup {LMail(a) : a \in Senders}
          ELSE IF ch.rcpttos = <<>> THEN {LRcpt("b@y.com")}
          ELSE {LData})

\* the same peer, which may send a malformed line instead of its HELO
PlainOrBad(ch) ==
    PlainLines(ch) \cup (IF ch.smtp_state = "COMMAND" /\ ch.seen_greeting = "" THEN {LBad} ELSE {})

\* ---- smtpd.SMTPChannel ------------------------------------------------------
NoChannel ==
    [st |-> "none", smtp_state |-> "COMMAND", terminator |-> <<CRLF>>,
     seen_greeting |-> "", mailfrom |-> "", rcpttos |-> <<>>,
     received_lines |-> <<>>, num_bytes |-> 0, ac_in_buffer |-> <<>>,
     closing |-> FALSE, reply |-> ""]

\* a close() that leaves the channel in the socket map
close_Stays(ch) == ch

\* asyncore.dispatcher.close via handle_close: the channel leaves the socket map
close(ch) == [ch EXCEPT !.st = "closed"]

\* SMTPChannel.push -> async_chat.push -> initiate_send: the response is written
\* at once, unless close_when_done() left its None at the head of the fifo, in
\* which case the channel closes instead; nothing is sent on a closed channel
push(ch, code) ==
    IF ch.st # "open" THEN ch
    ELSE IF ch.closing THEN close([ch EXCEPT !.closing = FALSE])
    ELSE [ch EXCEPT !.reply = code]

close_when_done(ch) == [ch EXCEPT !.closing = TRUE]

\* _set_post_data_state that keeps the recipients
_set_post_data_state_KeepRcpts(ch) ==
    [ch EXCEPT !.smtp_state = "COMMAND", !.mailfrom = "", !.num_bytes = 0,
               !.terminator = <<CRLF>>]

_set_post_data_state(ch) ==
    [ch EXCEPT !.smtp_state = "COMMAND", !.mailfrom = "", !.rcpttos = <<>>,
               !.num_bytes = 0, !.terminator = <<CRLF>>]

_set_rset_state(ch) ==
    [_set_post_data_state(ch) EXCEPT !.received_lines = <<>>]

\* the responses that report an error to the peer
ErrorReplies ==
    {"500 Error: bad syntax", "500 Error: line too long",
     "500 Error: command not recognized", "501 Syntax: HELO hostname",
     "503 Duplicate HELO/EHLO", "503 Error: send HELO first",
     "501 Syntax: MAIL FROM: <address>", "503 Error: nested MAIL command",
     "503 Error: need MAIL command", "501 Syntax: RCPT TO: <address>",
     "501 Syntax: RSET", "503 Error: need RCPT command", "501 Syntax: DATA",
     "552 Error: Too much mail data"}

\* SMTPChannel.__init__ and the greeting it pushes
NewChannel == push([_set_rset_state(NoChannel) EXCEPT !.st = "open"], "220 greeting")

\* the outcome of handling one line: the channel, and whether the handler goes
\* on ("none"), calls process_message ("call") or raised ("raise")
Done(ch) == [ch |-> ch, eff |-> "none", data |-> <<>>]
Raised(ch) == [ch |-> ch, eff |-> "raise", data |-> <<>>]
\* a found_terminator that resets the transaction before it calls
\* process_message
Call_ResetFirst(ch, data) == [ch |-> _set_post_data_state(ch), eff |-> "call", data |-> data]

Call(ch, data) == [ch |-> ch, eff |-> "call", data |-> data]

Command(line) == IF Head(line).k \in Verbs THEN Head(line).k ELSE "?"
Arg(line) == Tail(line)
ValidUtf8(line) == \A i \in 1..Len(line) : line[i].k # "B"
IsAscii(line) == \A i \in 1..Len(line) : line[i].k \notin {"E", "R"}
\* _getaddr: the address at the head of the argument, '' if there is none
Address(arg) == IF arg # <<>> /\ Head(arg).k \in Addrs THEN Head(arg).k ELSE ""

smtp_HELO(ch, arg) ==
    IF arg = <<>> THEN push(ch, "501 Syntax: HELO hostname")
    ELSE IF ch.seen_greeting # "" THEN push(ch, "503 Duplicate HELO/EHLO")
    ELSE push([_set_rset_state(ch) EXCEPT !.seen_greeting = Head(arg).k], "250 fqdn")

\* smtp_QUIT that leaves the channel open
smtp_QUIT_NoClose(ch, arg) == push(ch, "221 Bye")

smtp_QUIT(ch, arg) == close_when_done(push(ch, "221 Bye"))

\* smtp_MAIL that does not ask for a HELO
smtp_MAIL_NoHelo(ch, arg) ==
    IF arg = <<>> THEN push(ch, "501 Syntax: MAIL FROM: <address>")
    ELSE IF Address(arg) = "" THEN push(ch, "501 Syntax: MAIL FROM: <address>")
    ELSE IF Tail(arg) # <<>> THEN push(ch, "501 Syntax: MAIL FROM: <address>")
    ELSE IF ch.mailfrom # "" THEN push(ch, "503 Error: nested MAIL command")
    ELSE push([ch EXCEPT !.mailfrom = Address(arg)], "250 OK")

smtp_MAIL(ch, arg) ==
    IF ch.seen_greeting = "" THEN push(ch, "503 Error: send HELO first")
    ELSE IF arg = <<>> THEN push(ch, "501 Syntax: MAIL FROM: <address>")
    ELSE IF Address(arg) = "" THEN push(ch, "501 Syntax: MAIL FROM: <address>")
    ELSE IF Tail(arg) # <<>> THEN push(ch, "501 Syntax: MAIL FROM: <address>")
    ELSE IF ch.mailfrom # "" THEN push(ch, "503 Error: nested MAIL command")
    ELSE push([ch EXCEPT !.mailfrom = Address(arg)], "250 OK")

\* an smtp_RCPT that puts the new recipient first
smtp_RCPT_Prepend(ch, arg) ==
    IF ch.seen_greeting = "" THEN push(ch, "503 Error: send HELO first")
    ELSE IF ch.mailfrom = "" THEN push(ch, "503 Error: need MAIL command")
    ELSE IF arg = <<>> THEN push(ch, "501 Syntax: RCPT TO: <address>")
    ELSE IF Address(arg) = "" THEN push(ch, "501 Syntax: RCPT TO: <address>")
    ELSE IF Tail(arg) # <<>> THEN push(ch, "501 Syntax: RCPT TO: <address>")
    ELSE push([ch EXCEPT !.rcpttos = <<Address(arg)>> \o @], "250 OK")

smtp_RCPT(ch, arg) ==
    IF ch.seen_greeting = "" THEN push(ch, "503 Error: send HELO first")
    ELSE IF ch.mailfrom = "" THEN push(ch, "503 Error: need MAIL command")
    ELSE IF arg = <<>> THEN push(ch, "501 Syntax: RCPT TO: <address>")
    ELSE IF Address(arg) = "" THEN push(ch, "501 Syntax: RCPT TO: <address>")
    ELSE IF Tail(arg) # <<>> THEN push(ch, "501 Syntax: RCPT TO: <address>")
    ELSE push([ch EXCEPT !.rcpttos = Append(@, Address(arg))], "250 OK")

smtp_RSET(ch, arg) ==
    IF arg # <<>> THEN push(ch, "501 Syntax: RSET")
    ELSE push(_set_rset_state(ch), "250 OK")

\* smtp_DATA without the check for recipients
smtp_DATA_NoRcptCheck(ch, arg) ==
    IF ch.seen_greeting = "" THEN push(ch, "503 Error: send HELO first")
    ELSE IF arg # <<>> THEN push(ch, "501 Syntax: DATA")
    ELSE push([ch EXCEPT !.smtp_state = "DATA", !.terminator = <<CRLF, DOT, CRLF>>],
              "354 End data with <CR><LF>.<CR><LF>")

smtp_DATA(ch, arg) ==
    IF ch.seen_greeting = "" THEN push(ch, "503 Error: send HELO first")
    ELSE IF ch.rcpttos = <<>> THEN push(ch, "503 Error: need RCPT command")
    ELSE IF arg # <<>> THEN push(ch, "501 Syntax: DATA")
    ELSE push([ch EXCEPT !.smtp_state = "DATA", !.terminator = <<CRLF, DOT, CRLF>>],
              "354 End data with <CR><LF>.<CR><LF>")

\* no de-transparency
Unstuff_Keep(text) == text

\* de-transparency of one line (RFC 5321, 4.5.2): text[1:] if text starts with "."
Unstuff(text) ==
    IF text # <<>> /\ Head(text).k = "."
    THEN IF Head(text).n = 1 THEN Tail(text)
         ELSE <<Run(".", Head(text).n - 1)>> \o Tail(text)
    ELSE text

RECURSIVE Flatten(_)
Flatten(pieces) == IF pieces = <<>> THEN <<>> ELSE Head(pieces) \o Flatten(Tail(pieces))

\* received_data that keeps the line ending before the terminator line
received_data_KeepEnd(line) ==
    LET texts == Split(line, CRLF, <<>>)
    IN Join([i \in 1..Len(texts) |-> Unstuff(texts[i])], LF) \o <<CRLF>>

received_data(line) ==
    LET texts == Split(line, CRLF, <<>>)
    IN Join([i \in 1..Len(texts) |-> Unstuff(texts[i])], LF)

\* collect_incoming_data that does not count the bytes it takes
collect_incoming_data_NoCount(ch, data) ==
    [ch EXCEPT !.received_lines = Append(@, data)]

collect_incoming_data(ch, data) ==
    LET limit == IF ch.smtp_state = "COMMAND" THEN command_size_limit ELSE DATA_SIZE_DEFAULT
    IN IF ch.num_bytes > limit THEN ch
       ELSE [ch EXCEPT !.num_bytes = @ + ByteLen(data),
                       !.received_lines = Append(@, data)]

found_terminator(ch) ==
    LET line == Flatten(ch.received_lines)
        c0 == [ch EXCEPT !.received_lines = <<>>]
    IN IF ch.smtp_state = "COMMAND"
       THEN LET c1 == [c0 EXCEPT !.num_bytes = 0]
            IN IF line = <<>> THEN Done(push(c1, "500 Error: bad syntax"))
               ELSE IF ~ValidUtf8(line) THEN Raised(c1)
               ELSE IF ch.num_bytes > command_size_limit
                    THEN Done(push(c1, "500 Error: line too long"))
               ELSE IF Command(line) = "?"
                    THEN IF IsAscii(line)
                         THEN Done(push(c1, "500 Error: command not recognized"))
                         ELSE Raised(c1)
               ELSE Done(CASE Command(line) = "HELO" -> smtp_HELO(c1, Arg(line))
                           [] Command(line) = "MAIL" -> smtp_MAIL(c1, Arg(line))
                           [] Command(line) = "RCPT" -> smtp_RCPT(c1, Arg(line))
                           [] Command(line) = "DATA" -> smtp_DATA(c1, Arg(line))
                           [] Command(line) = "RSET" -> smtp_RSET(c1, Arg(line))
                           [] Command(line) = "QUIT" -> smtp_QUIT(c1, Arg(line)))
       ELSE IF ch.num_bytes > DATA_SIZE_DEFAULT
            THEN Done(push([c0 EXCEPT !.num_bytes = 0], "552 Error: Too much mail data"))
       ELSE Call(c0, received_data(line))

\* one pass of the loop of async_chat.handle_read over the buffered input
scan(ch, input) ==
    LET buf == ch.ac_in_buffer \o input
        term == ch.terminator
        index == Find(buf, term)
        p == find_prefix_at_end(buf, term)
    IN IF index # -1
       THEN LET c1 == IF index > 0 THEN collect_incoming_data(ch, SubSeq(buf, 1, index)) ELSE ch
            IN found_terminator(
                 [c1 EXCEPT !.ac_in_buffer = SubSeq(buf, index + Len(term) + 1, Len(buf))])
       ELSE IF p # 0
            THEN IF p # Len(buf)
                 THEN Done([collect_incoming_data(ch, SubSeq(buf, 1, Len(buf) - p))
                              EXCEPT !.ac_in_buffer = SubSeq(buf, Len(buf) - p + 1, Len(buf))])
                 ELSE Done([ch EXCEPT !.ac_in_buffer = buf])
       ELSE Done([collect_incoming_data(ch, buf) EXCEPT !.ac_in_buffer = <<>>])

\* ---- process_message (test-smtp-server.py) ----------------------------------
\* an entry whose size is the length of the decoded text
Entry_CharSize(peer, mailfrom, rcpttos, data) ==
    [peer |-> peer, from |-> mailfrom, to |-> rcpttos, size |-> CharLen(Decode(data)),
     body_preview |-> Slice(Decode(data), PreviewLen)]

\* the entry built from the arguments; data is bytes, as the channel is created
\* with decode_data=False
Entry(peer, mailfrom, rcpttos, data) ==
    [peer |-> peer, from |-> mailfrom, to |-> rcpttos, size |-> ByteLen(data),
     body_preview |-> Slice(Decode(data), PreviewLen)]

\* the block printed on the console
Trace(peer, mailfrom, rcpttos, data) ==
    [peer |-> peer, from |-> mailfrom, to |-> rcpttos, size |-> ByteLen(data),
     body |-> Slice(Decode(data), TraceLen)]

\* what open(LOG_FILE, 'a') and f.write(...) can do: the line is appended
\* ("ok"), or open or the write raises OSError and nothing is appended ("fail")
Outcomes == {"ok", "fail"}

\* a log opened with mode 'w': the write replaces what the file held
write_Truncate(f, line) == <<line>>

\* open(LOG_FILE, 'a') and f.write(line): the line goes to the end of the file
write(f, line) == Append(f, line)

\* a process_message that returns a status
ReturnValue_Reject == "554 Transaction failed"

\* the value process_message returns: None
ReturnValue == ""

\* found_terminator: the response for the status process_message returned
StatusReply(status) == IF status = "" THEN "250 OK" ELSE status

\* ---- state --------------------------------------------------------------------
VARIABLES
    peers,      \* the environment: "any", "plain" or "text" peers (see Init)
    looping,    \* asyncore.loop() is running with the listener in its socket map
    chan,       \* the SMTPChannel of each connection slot
    pc,         \* where the handler running for a channel stands
    nread,      \* lines the running handle_read of a channel has taken so far
    call,       \* the arguments of the process_message call in progress
    console,    \* the blocks printed on stdout
    logf,       \* captured-emails.log
    markers,    \* history: end-of-data markers processed
    sinkCalls,  \* history: invocations of process_message
    oversize,   \* history: markers that ended a body over the data size limit
    accepted,   \* history: the calls of process_message that returned
    decl,       \* history: what the peer declared since its last captured message
    ended       \* history: how and when each connection ended

vars == <<peers, looping, chan, pc, nread, call, console, logf, markers, sinkCalls,
          oversize, accepted, decl, ended>>

NoDecl == [from |-> {}, to |-> {}, rcpts |-> <<>>, body |-> <<>>]
NoCall == [peer |-> 0, id |-> 0, mailfrom |-> "", rcpttos |-> <<>>, data |-> <<>>,
           decl |-> NoDecl]
NotEnded == [why |-> "", data |-> FALSE]

InitState ==
    /\ looping = TRUE
    /\ chan = [c \in Conns |-> NoChannel]
    /\ pc = [c \in Conns |-> "idle"]
    /\ nread = [c \in Conns |-> 0]
    /\ call = [c \in Conns |-> NoCall]
    /\ console = <<>>
    /\ logf = <<>>
    /\ markers = 0
    /\ sinkCalls = 0
    /\ oversize = 0
    /\ accepted = {}
    /\ decl = [c \in Conns |-> NoDecl]
    /\ ended = [c \in Conns |-> NotEnded]

\* one connection, whose peer sends any line
Init == peers = "any" /\ InitState

\* MaxConn connections, whose peers follow the dialogue
InitMany == peers = "plain" /\ InitState

\* one connection, whose peer follows the dialogue and sends one message with
\* any recipients and any body
InitText == peers = "text" /\ InitState

\* handlers that run on threads of their own
LoopIdle_Threads == TRUE

\* asyncore.poll dispatches one readiness event at a time on the one thread of
\* asyncore.loop(): no handler starts while another is running
LoopIdle == \A c \in Conns : pc[c] = "idle"

\* process_message is executing for the channel
InSink(c) == pc[c] \in {"trace", "append", "post"}

\* a handle_error that lets the exception leave asyncore.loop()
handle_error_Reraise(ch, loop) == [ch |-> close(ch), looping |-> FALSE]

\* asyncore.read/write: an exception escaping a handler ends in
\* dispatcher.handle_error, which logs it and closes that channel only
handle_error(ch, loop) == [ch |-> close(ch), looping |-> loop]

\* the input of a data transfer holds the end-of-data marker
MarkerSeen(ch, line) ==
    /\ ch.smtp_state = "DATA"
    /\ Find(ch.ac_in_buffer \o line \o <<CRLF>>, ch.terminator) # -1

\* lines the peer may send next (the caps keep the model finite); a peer that
\* sends any line keeps the line "." for the end of its data, a peer that sends
\* any body names any recipients and quits after its message
PeerLines(c) ==
    IF peers = "plain"
    THEN {l \in PlainOrBad(chan[c]) : MarkerSeen(chan[c], l) => markers < MaxMsgs}
    ELSE IF peers = "text"
    THEN IF chan[c].smtp_state = "DATA"
         THEN {l \in TextLines :
                 IF MarkerSeen(chan[c], l) THEN markers = 0
                 ELSE Len(decl[c].body) < MaxBody + 1}
         ELSE IF markers > 0 THEN {LQuit}
         ELSE IF chan[c].mailfrom # "" /\ Len(chan[c].rcpttos) < MaxRcpt
         THEN PlainLines(chan[c]) \cup {LRcpt(a) : a \in Rcpts}
                \cup (IF chan[c].rcpttos # <<>> THEN {LRset} ELSE {LMail("b@y.com")})
         ELSE PlainLines(chan[c])
    ELSE IF chan[c].smtp_state = "DATA"
    THEN {l \in DataLines :
            IF MarkerSeen(chan[c], l) THEN markers < MaxMsgs
            ELSE l # LDot /\ Len(decl[c].body) < MaxBody}
    ELSE {l \in CmdLines :
            Command(l) = "RCPT" => Len(chan[c].rcpttos) < MaxRcpt}

\* the recv() may hold more than the n lines taken from it; a peer that follows
\* the dialogue sends a line at a time once it has sent its HELO
Pipelined(c, n) == n < MaxChunk /\ (peers = "plain" => chan[c].seen_greeting = "")

\* after a line: the loop of handle_read goes on if the recv() held more
After(c, n) == IF Pipelined(c, n) THEN "more" ELSE "idle"
Taken(c, n) == IF Pipelined(c, n) THEN n ELSE 0

\* history: the messages of a peer on the console and in the log
Captured(c) == Cardinality({i \in 1..Len(console) : console[i].tr.peer = c})
Logged(c) == Cardinality({i \in 1..Len(logf) : logf[i].entry.peer = c})

\* history: the peer's lines since its last captured message
Declare(d, ch, line) ==
    IF ch.smtp_state = "DATA"
    THEN [d EXCEPT !.body = IF MarkerSeen(ch, line) THEN <<>> ELSE Append(@, line)]
    ELSE IF Command(line) = "MAIL" THEN [d EXCEPT !.from = @ \cup {Address(Arg(line))}]
    ELSE IF Command(line) = "RCPT"
    THEN [d EXCEPT !.to = @ \cup {Address(Arg(line))},
                   !.rcpts = IF ch.seen_greeting # "" /\ ch.mailfrom # ""
                             THEN Append(@, Address(Arg(line))) ELSE @]
    ELSE IF Command(line) = "RSET" /\ Arg(line) = <<>> THEN [d EXCEPT !.rcpts = <<>>]
    ELSE d

\* history: the connection ends when its channel leaves the socket map or its
\* peer is gone
End(c, old, new, why) ==
    IF old.st = "open" /\ (new.st = "closed" \/ why = "lost")
    THEN [ended EXCEPT ![c] = [why |-> why, data |-> (old.smtp_state = "DATA")]]
    ELSE ended

\* one line of the input goes through the loop of async_chat.handle_read
Process(c, line, n) ==
    LET ch == chan[c]
        r == scan(ch, line \o <<CRLF>>)
        he == handle_error(r.ch, looping)
    IN /\ markers' = IF MarkerSeen(ch, line) THEN markers + 1 ELSE markers
       /\ oversize' = IF MarkerSeen(ch, line)
                         /\ ByteLen(Join(decl[c].body, CRLF)) > DATA_SIZE_DEFAULT
                      THEN oversize + 1 ELSE oversize
       /\ CASE r.eff = "none" ->
                 /\ chan' = [chan EXCEPT ![c] = r.ch]
                 /\ pc' = [pc EXCEPT ![c] = After(c, n)]
                 /\ nread' = [nread EXCEPT ![c] = Taken(c, n)]
                 /\ decl' = [decl EXCEPT ![c] = Declare(@, ch, line)]
                 /\ ended' = End(c, ch, r.ch, "quit")
                 /\ UNCHANGED <<looping, call, sinkCalls>>
            [] r.eff = "raise" ->
                 /\ chan' = [chan EXCEPT ![c] = he.ch]
                 /\ looping' = he.looping
                 /\ pc' = [pc EXCEPT ![c] = "idle"]
                 /\ nread' = [nread EXCEPT ![c] = 0]
                 /\ decl' = [decl EXCEPT ![c] = Declare(@, ch, line)]
                 /\ ended' = End(c, ch, he.ch, "error")
                 /\ UNCHANGED <<call, sinkCalls>>
            [] r.eff = "call" ->
                 /\ chan' = [chan EXCEPT ![c] = r.ch]
                 /\ call' = [call EXCEPT ![c] =
                        [peer |-> c, id |-> sinkCalls + 1, mailfrom |-> r.ch.mailfrom,
                         rcpttos |-> r.ch.rcpttos, data |-> r.data, decl |-> decl[c]]]
                 /\ sinkCalls' = sinkCalls + 1
                 /\ pc' = [pc EXCEPT ![c] = "trace"]
                 /\ nread' = [nread EXCEPT ![c] = n]
                 /\ decl' = [decl EXCEPT ![c] = NoDecl]
                 /\ UNCHANGED <<looping, ended>>
       /\ UNCHANGED <<peers, console, logf, accepted>>

\* SMTPServer.handle_accepted: the listener is readable, a channel is created
HandleAccept(c) ==
    /\ looping /\ LoopIdle
    /\ chan[c].st = "none"
    /\ \A d \in Conns : d < c => chan[d].st # "none"
    /\ peers # "plain" => c = 1
    /\ chan' = [chan EXCEPT ![c] = NewChannel]
    /\ UNCHANGED <<peers, looping, pc, nread, call, console, logf, markers, sinkCalls,
                   oversize, accepted, decl, ended>>

\* async_chat.handle_read: the channel is readable and recv() returns data
HandleRead(c) ==
    /\ looping /\ LoopIdle /\ pc[c] = "idle"
    /\ chan[c].st = "open"
    /\ \E line \in PeerLines(c) : Process(c, line, 1)

\* the same recv() held a further line
ReadMore(c) ==
    /\ pc[c] = "more"
    /\ \E line \in PeerLines(c) : Process(c, line, nread[c] + 1)

\* the buffer is exhausted: handle_read returns to the loop
ReadDone(c) ==
    /\ pc[c] = "more"
    /\ pc' = [pc EXCEPT ![c] = "idle"]
    /\ nread' = [nread EXCEPT ![c] = 0]
    /\ UNCHANGED <<peers, looping, chan, call, console, logf, markers, sinkCalls,
                   oversize, accepted, decl, ended>>

\* a process_message that prints nothing before it appends
SinkTrace_NoPrint(c) ==
    /\ pc[c] = "trace"
    /\ pc' = [pc EXCEPT ![c] = "append"]
    /\ UNCHANGED <<peers, looping, chan, nread, call, console, logf, markers, sinkCalls,
                   oversize, accepted, decl, ended>>

\* process_message, lines 17-36: the entry is built and the block is printed
SinkTrace(c) ==
    /\ pc[c] = "trace"
    /\ console' = Append(console,
           [id |-> call[c].id,
            tr |-> Trace(call[c].peer, call[c].mailfrom, call[c].rcpttos, call[c].data)])
    /\ pc' = [pc EXCEPT ![c] = "append"]
    /\ UNCHANGED <<peers, looping, chan, nread, call, logf, markers, sinkCalls,
                   oversize, accepted, decl, ended>>

\* process_message, lines 38-39: the line is appended to the log; an OSError
\* is not caught and leaves process_message, found_terminator and handle_read
SinkAppend(c) ==
    /\ pc[c] = "append"
    /\ \E o \in Outcomes :
         LET e == Entry(call[c].peer, call[c].mailfrom, call[c].rcpttos, call[c].data)
             he == handle_error(chan[c], looping)
         IN /\ logf' = IF o = "fail" THEN logf
                       ELSE write(logf, [id |-> call[c].id, entry |-> e])
            /\ IF o = "ok"
               THEN /\ pc' = [pc EXCEPT ![c] = "post"]
                    /\ UNCHANGED <<chan, looping, nread, call, ended>>
               ELSE /\ chan' = [chan EXCEPT ![c] = he.ch]
                    /\ looping' = he.looping
                    /\ pc' = [pc EXCEPT ![c] = "idle"]
                    /\ nread' = [nread EXCEPT ![c] = 0]
                    /\ call' = [call EXCEPT ![c] = NoCall]
                    /\ ended' = End(c, chan[c], he.ch, "error")
    /\ UNCHANGED <<peers, console, markers, sinkCalls, oversize, accepted, decl>>

\* process_message, line 41, and the rest of found_terminator: the transaction
\* is reset and the response for the returned status is pushed
PostData(c) ==
    /\ pc[c] = "post"
    /\ chan' = [chan EXCEPT ![c] = push(_set_post_data_state(@), StatusReply(ReturnValue))]
    /\ pc' = [pc EXCEPT ![c] = After(c, nread[c])]
    /\ nread' = [nread EXCEPT ![c] = Taken(c, @)]
    /\ call' = [call EXCEPT ![c] = NoCall]
    /\ accepted' = accepted \cup {call[c].id}
    /\ ended' = End(c, chan[c], chan'[c], "quit")
    /\ UNCHANGED <<peers, looping, console, logf, markers, sinkCalls, oversize, decl>>

\* async_chat.handle_write -> initiate_send: the None left by close_when_done
\* is at the head of the fifo and the channel closes
HandleWrite(c) ==
    /\ looping /\ LoopIdle /\ pc[c] = "idle"
    /\ chan[c].st = "open" /\ chan[c].closing
    /\ chan' = [chan EXCEPT ![c] = close([@ EXCEPT !.closing = FALSE])]
    /\ ended' = End(c, chan[c], chan'[c], "quit")
    /\ UNCHANGED <<peers, looping, pc, nread, call, console, logf, markers, sinkCalls,
                   oversize, accepted, decl>>

\* async_chat.handle_read when dispatcher.recv finds the peer gone (it returns
\* b'' after handle_close) or raises (handle_error): the channel is closed
HandleClose(c) ==
    /\ looping /\ LoopIdle /\ pc[c] = "idle"
    /\ chan[c].st = "open"
    /\ chan' = [chan EXCEPT ![c] = close(@)]
    /\ ended' = End(c, chan[c], chan'[c], "lost")
    /\ UNCHANGED <<peers, looping, pc, nread, call, console, logf, markers, sinkCalls,
                   oversize, accepted, decl>>

Next ==
    \E c \in Conns :
        \/ HandleAccept(c)
        \/ HandleRead(c)
        \/ ReadMore(c)
        \/ ReadDone(c)
        \/ SinkTrace(c)
        \/ SinkAppend(c)
        \/ PostData(c)
        \/ HandleWrite(c)
        \/ HandleClose(c)

Spec == Init /\ [][Next]_vars

SpecMany == InitMany /\ [][Next]_vars

SpecText == InitText /\ [][Next]_vars

\* ---- claims ------------------------------------------------------------------

\* C1 as stated: the number of process_message invocations always equals the
\* number of end-of-data markers processed.
C1_SinkCallsEqualMarkers == sinkCalls = markers

\* C1, amended: process_message is invoked exactly once for every end-of-data
\* marker that ends a body within the data size limit, and not at all for a
\* marker that ends a body over the limit (answered 552).
C1_OncePerMarkerWithinLimit == sinkCalls = markers - oversize

C1_Witness == sinkCalls >= 1 /\ oversize >= 1

\* C2: a DATA command on a live session with no recipient is answered with an
\* error, changes nothing of the channel but the response, prints and logs
\* nothing and does not call process_message.
C2_DataWithoutRecipients ==
    [][\A c \in Conns, n \in 1..MaxChunk :
          (/\ chan[c].st = "open" /\ ~chan[c].closing
           /\ chan[c].smtp_state = "COMMAND" /\ chan[c].rcpttos = <<>>
           /\ Process(c, LData, n))
          => /\ chan'[c].reply \in ErrorReplies
             /\ chan'[c] = [chan[c] EXCEPT !.reply = chan'[c].reply]
             /\ pc'[c] \in {"idle", "more"}
             /\ call' = call /\ sinkCalls' = sinkCalls
             /\ console' = console /\ logf' = logf]_vars

C2_Witness ==
    \E c \in Conns :
        /\ chan[c].st = "open" /\ chan[c].mailfrom # "" /\ chan[c].rcpttos = <<>>
        /\ chan[c].smtp_state = "COMMAND"
        /\ chan[c].reply = "503 Error: need RCPT command"

\* C3: a connection lost during a data transfer, before the end-of-data marker,
\* never yields a message: no call of process_message is in progress for it
\* then or later, and no step adds a block of its to the console or a line of
\* its to the log.
C3_LostInDataNeverCaptured ==
    [][\A c \in Conns :
          (ended[c].why = "lost" /\ ended[c].data)
          => /\ pc[c] = "idle" /\ call[c] = NoCall
             /\ pc'[c] = "idle" /\ call'[c] = NoCall
             /\ Captured(c)' = Captured(c)
             /\ Logged(c)' = Logged(c)]_vars

C3_Witness ==
    \E c, d \in Conns :
        /\ ended[c].why = "lost" /\ ended[c].data
        /\ chan[c].received_lines # <<>>
        /\ c # d /\ pc[d] = "post"

\* C4 as stated: when the append of the log line fails inside
\* process_message, the session is not closed and the handler goes on to
\* accept the message and reset the transaction.
C4_AppendFailureKeepsSession ==
    [][\A c \in Conns :
          (/\ pc[c] = "append" /\ pc'[c] # "append"
           /\ chan[c].st = "open" /\ logf' = logf)
          => /\ chan'[c].st = "open"
             /\ pc'[c] = "post"]_vars

\* C5: the invocations of process_message exclude each other; the blocks on
\* the console and the lines of the log follow the order of the invocations,
\* the block and the line of the invocation in progress are the last ones, and
\* every message whose invocation returned has exactly one line in the log,
\* which carries that message's own peer, sender, recipients and size.
C5_SinkInvocationsAtomic ==
    /\ Cardinality({c \in Conns : InSink(c)}) <= 1
    /\ \A i \in 1..Len(console) : console[i].id = i
    /\ \A i, j \in 1..Len(logf) : i < j => logf[i].id < logf[j].id
    /\ \A c \in Conns :
          /\ pc[c] = "append" =>
                /\ console # <<>> /\ console[Len(console)].id = call[c].id
                /\ \A j \in 1..Len(logf) : logf[j].id < call[c].id
          /\ pc[c] = "post" =>
                /\ console # <<>> /\ console[Len(console)].id = call[c].id
                /\ logf # <<>> /\ logf[Len(logf)].id = call[c].id
    /\ \A i \in accepted :
          /\ Cardinality({j \in 1..Len(logf) : logf[j].id = i}) = 1
          /\ i \in 1..Len(console)
          /\ \A j \in 1..Len(logf) :
                logf[j].id = i =>
                   /\ logf[j].entry.peer = console[i].tr.peer
                   /\ logf[j].entry.from = console[i].tr.from
                   /\ logf[j].entry.to = console[i].tr.to
                   /\ logf[j].entry.size = console[i].tr.size

C5_Witness ==
    \E c, d \in Conns :
        /\ c # d /\ pc[c] = "post"
        /\ chan[d].st = "open" /\ chan[d].smtp_state = "DATA"
        /\ \E i \in accepted : console[i].tr.peer = d

\* C6: asyncore.loop() keeps running with the listener, which accepts a
\* connection whenever the loop is idle and a slot is free, and a step that
\* closes one channel changes nothing of any other session.
C6_FailureIsolation ==
    /\ [](looping)
    /\ [](\A c \in Conns :
            (/\ LoopIdle /\ chan[c].st = "none"
             /\ \A d \in Conns : d < c => chan[d].st # "none")
            => ENABLED HandleAccept(c))
    /\ [][\A c \in Conns :
            (chan[c].st = "open" /\ chan'[c].st = "closed")
            => \A d \in Conns \ {c} :
                  /\ chan'[d] = chan[d] /\ pc'[d] = pc[d]
                  /\ call'[d] = call[d] /\ decl'[d] = decl[d]]_vars

C6_Witness ==
    \E c, d \in Conns :
        /\ c # d /\ ended[c].why = "error" /\ chan[c].st = "closed"
        /\ chan[d].st = "open" /\ pc[d] = "post"

C8_QuitInAnyState ==
    [][\A c \in Conns, n \in 1..MaxChunk :
          /\ (chan[c].st = "open" /\ ~chan[c].closing /\ Process(c, LQuit, n))
             => chan'[c].reply = "221 Bye" /\ chan'[c].closing
          /\ chan[c].closing
             => \A line \in CmdLines : ~Process(c, line, n)]_vars

\* C8, amended: a QUIT line received in command state is answered 221 and
\* schedules the close, leaving the rest of the channel as it is; whatever
\* changes the channel next closes it; a closed channel whose handler has
\* returned gets no further event; in a data transfer the line QUIT neither
\* is answered nor schedules the close nor ends the transfer.
C8_QuitInCommandState ==
    [][\A c \in Conns :
          /\ \A n \in 1..MaxChunk :
                (/\ chan[c].st = "open" /\ ~chan[c].closing
                 /\ chan[c].smtp_state = "COMMAND" /\ Process(c, LQuit, n))
                => chan'[c] = [chan[c] EXCEPT !.reply = "221 Bye", !.closing = TRUE]
          /\ (chan[c].st = "open" /\ chan[c].closing /\ chan'[c] # chan[c])
             => chan'[c].st = "closed"
          /\ (chan[c].st = "closed" /\ pc[c] = "idle")
             => chan'[c] = chan[c] /\ pc'[c] = "idle"
          /\ \A n \in 1..MaxChunk :
                (chan[c].smtp_state = "DATA" /\ Process(c, LQuit, n))
                => /\ chan'[c].smtp_state = "DATA"
                   /\ chan'[c].reply = chan[c].reply
                   /\ chan'[c].closing = chan[c].closing
                   /\ chan'[c].st = chan[c].st]_vars

C8_Witness ==
    \E c \in Conns :
        /\ chan[c].st = "closed" /\ ended[c].why = "quit"
        /\ chan[c].reply = "221 Bye" /\ chan[c].mailfrom # ""
        /\ pc[c] = "idle"

\* C9: the sender and the recipients a live channel holds, and the arguments of a
\* call of process_message, were declared since the last call on the same
\* connection; the body of a call is the lines sent since then; once a call
\* has returned and nothing has been declared, the transaction is empty.
C9_NoCarryOver ==
    \A c \in Conns :
        LET d == IF InSink(c) THEN call[c].decl ELSE decl[c]
            ch == chan[c]
        IN /\ ~(ch.st = "closed" /\ pc[c] = "idle") =>
                /\ ch.mailfrom # "" => ch.mailfrom \in d.from
                /\ \A i \in 1..Len(ch.rcpttos) : ch.rcpttos[i] \in d.to
                /\ d.body = <<>> => ch.received_lines = <<>> /\ ch.ac_in_buffer = <<>>
           /\ InSink(c) =>
                /\ call[c].mailfrom \in d.from
                /\ \A i \in 1..Len(call[c].rcpttos) : call[c].rcpttos[i] \in d.to
                /\ call[c].data = Join([i \in 1..Len(d.body) |-> Unstuff(d.body[i])], LF)

C9_Witness ==
    \E c \in Conns :
        /\ pc[c] = "trace" /\ call[c].id = 2
        /\ Len(console) = 1 /\ console[1].tr.peer = c /\ 1 \in accepted
        /\ console[1].tr.to # call[c].rcpttos
        /\ call[c].data # <<>> /\ chan[c].st = "open"

\* C10: the body passed to process_message has one line for every line sent
\* in the data transfer; a line sent with a leading period is kept without
\* that one period, any other line as it was sent; the line ".." does not end
\* the data transfer and joins the body.
C10_DotUnescaping ==
    /\ [](\A c \in Conns :
            InSink(c) =>
               LET body == call[c].decl.body
                   kept == Split(call[c].data, LF, <<>>)
               IN /\ Len(kept) = Len(body)
                  /\ \A i \in 1..Len(body) :
                        IF body[i] # <<>> /\ Head(body[i]) = DOT
                        THEN body[i] = <<DOT>> \o kept[i]
                        ELSE kept[i] = body[i])
    /\ [][\A c \in Conns, n \in 1..MaxChunk :
            (chan[c].smtp_state = "DATA" /\ Process(c, LDotDot, n))
            => /\ markers' = markers
               /\ chan'[c].smtp_state = "DATA"
               /\ pc'[c] # "trace"
               /\ decl'[c].body = Append(decl[c].body, LDotDot)]_vars

C10_Witness ==
    \E c \in Conns :
        /\ pc[c] = "trace"
        /\ \E i \in 2..Len(call[c].decl.body) :
              /\ call[c].decl.body[i] = LDotDot
              /\ Split(call[c].data, LF, <<>>)[i] = <<DOT>>

\* C11 as stated: the body "Hello world" CRLF followed by the terminator line
\* reaches process_message with its line ending; the size of the record is the
\* 13 bytes of that text and the preview is the same text.
C11_LineEndingRetained ==
    \A c \in Conns :
        (pc[c] = "post" /\ call[c].decl.body = <<LHello>>)
        => /\ call[c].data = LHello \o <<CRLF>>
           /\ logf[Len(logf)].entry.size = 13
           /\ logf[Len(logf)].entry.body_preview = LHello \o <<CRLF>>

\* C11, amended: the body "Hello world" CRLF followed by the terminator line
\* reaches process_message as "Hello world", without the line ending before
\* the terminator line; the size of the record is 11, the preview and the
\* traced body are "Hello world".  A line ending inside the body arrives as a
\* single newline: two such lines give 23 bytes.
C11_LineEndingDropped ==
    \A c \in Conns :
        pc[c] = "post" =>
           /\ call[c].decl.body = <<LHello>> =>
                 /\ call[c].data = LHello
                 /\ logf[Len(logf)].entry.size = 11
                 /\ logf[Len(logf)].entry.body_preview = LHello
                 /\ console[Len(console)].tr.body = LHello
           /\ call[c].decl.body = <<LHello, LHello>> =>
                 /\ call[c].data = LHello \o <<LF>> \o LHello
                 /\ logf[Len(logf)].entry.size = 23
                 /\ logf[Len(logf)].entry.body_preview = LHello \o <<LF>> \o LHello

C11_Witness ==
    \E c \in Conns :
        /\ pc[c] = "post" /\ call[c].decl.body = <<LHello>>
        /\ logf # <<>> /\ logf[Len(logf)].id = call[c].id

\* C12: the size of the record just appended is the number of bytes of the
\* data handed to process_message: 3 for a two-byte character followed by an
\* invalid byte (2 characters once decoded), 600 for a line of 600 characters
\* (500 in the preview), 604 for both lines.
C12_SizeIsByteLength ==
    \A c \in Conns :
        pc[c] = "post" =>
           LET e == logf[Len(logf)].entry
               body == call[c].decl.body
           IN /\ e.size = ByteLen(call[c].data)
              /\ body = <<LWide>> => e.size = 3
              /\ body = <<LLong>> => e.size = 600
              /\ body = <<LWide, LLong>> => e.size = 604
              /\ body = <<LLong, LWide>> => e.size = 604

C12_Witness ==
    \E c \in Conns :
        /\ pc[c] = "post" /\ call[c].decl.body = <<LWide, LLong>>
        /\ logf[Len(logf)].entry.size # CharLen(Decode(call[c].data))
        /\ logf[Len(logf)].entry.size # CharLen(logf[Len(logf)].entry.body_preview)

\* C13: the preview of the record just appended is the first 500 characters
\* of the decoded data: it has min(500, length of the text) characters, it is a
\* prefix of the text, cutting it at 500 again changes nothing, an invalid
\* byte shows as the replacement character, and a line of 600 characters
\* gives its first 500.
C13_PreviewIsPrefix ==
    \A c \in Conns :
        pc[c] = "post" =>
           LET p == logf[Len(logf)].entry.body_preview
               t == Decode(call[c].data)
               n == Len(p)
               body == call[c].decl.body
           IN /\ CharLen(p) <= 500
              /\ CharLen(p) = IF CharLen(t) < 500 THEN CharLen(t) ELSE 500
              /\ n <= Len(t)
              /\ \A i \in 1..n : p[i].k = t[i].k
              /\ \A i \in 1..(n - 1) : p[i].n = t[i].n
              /\ n > 0 => p[n].n <= t[n].n
              /\ Slice(p, 500) = p
              /\ body = <<LWide>> => p = <<U("E"), U("R")>>
              /\ body = <<LLong>> => p = <<Run("x", 500)>>
              /\ body = <<LHello, LLong>> => p = <<U("Hello world"), LF, Run("x", 488)>>

C13_Witness ==
    \E c \in Conns :
        /\ pc[c] = "post" /\ call[c].decl.body = <<LHello, LLong>>
        /\ CharLen(logf[Len(logf)].entry.body_preview) = 500
        /\ CharLen(Decode(call[c].data)) = 612

\* C14 as stated: a MAIL command with one address that is the first line
\* after the greeting is accepted: the sender is recorded and the response
\* is 250.
C14_MailAfterGreeting ==
    [][\A c \in Conns, n \in 1..MaxChunk, a \in Senders :
          (/\ chan[c].st = "open" /\ chan[c].reply = "220 greeting"
           /\ Process(c, LMail(a), n))
          => /\ chan'[c].mailfrom = a
             /\ chan'[c].reply = "250 OK"]_vars

\* C14, amended: a MAIL command with one address on a live session in command
\* state is answered 503 and records nothing when no HELO was received; after
\* a HELO and with no sender recorded it records the sender on a transaction
\* with no recipients and no body and is answered 250; with a sender recorded
\* it is answered 503 and records nothing.
C14_MailAfterHelo ==
    [][\A c \in Conns, n \in 1..MaxChunk, a \in Senders :
          (/\ chan[c].st = "open" /\ ~chan[c].closing
           /\ chan[c].smtp_state = "COMMAND" /\ Process(c, LMail(a), n))
          => /\ chan[c].seen_greeting = ""
                => chan'[c] = [chan[c] EXCEPT !.reply = "503 Error: send HELO first"]
             /\ (chan[c].seen_greeting # "" /\ chan[c].mailfrom = "")
                => /\ chan'[c] = [chan[c] EXCEPT !.mailfrom = a, !.reply = "250 OK"]
                   /\ chan'[c].rcpttos = <<>> /\ chan'[c].received_lines = <<>>
             /\ (chan[c].seen_greeting # "" /\ chan[c].mailfrom # "")
                => chan'[c] = [chan[c] EXCEPT !.reply = "503 Error: nested MAIL command"]]_vars

C14_Witness ==
    \E c \in Conns :
        /\ chan[c].st = "open" /\ chan[c].smtp_state = "COMMAND"
        /\ chan[c].seen_greeting # "" /\ chan[c].mailfrom \in Senders
        /\ chan[c].rcpttos = <<>> /\ chan[c].reply = "250 OK"

\* C15 as stated: a malformed line (an unknown command, a line that is too
\* long, a line that is not UTF-8, an unknown command that is not ASCII) or a
\* command out of sequence (RCPT without a sender, MAIL with a sender) on a
\* live session in command state is answered with an error, changes nothing
\* of the channel but the response, leaves the session open and does not call
\* process_message.
C15_MalformedCommandKeepsSession ==
    [][\A c \in Conns, n \in 1..MaxChunk :
          \A line \in {LText, LBulk, LBad, LNonAscii, LRcpt("b@y.com")}
                        \cup {LMail(a) : a \in Senders} :
             (/\ chan[c].st = "open" /\ ~chan[c].closing
              /\ chan[c].smtp_state = "COMMAND"
              /\ Command(line) = "RCPT" => chan[c].mailfrom = ""
              /\ Command(line) = "MAIL" => chan[c].mailfrom # ""
              /\ Process(c, line, n))
             => /\ chan'[c].reply \in ErrorReplies
                /\ chan'[c] = [chan[c] EXCEPT !.reply = chan'[c].reply]
                /\ pc'[c] # "trace" /\ sinkCalls' = sinkCalls]_vars

\* C16: a transaction has one sender: a recorded sender is only ever cleared,
\* never replaced; outside a data transfer no body is held; the recipient list
\* changes only by the append of the address of an accepted RCPT, or by being
\* emptied together with the sender and the body; the list a live channel
\* holds, and the list passed to process_message, is the sequence of the
\* recipients declared in the transaction, in the order of their declaration.
C16_RecipientsInOrder ==
    /\ [](\A c \in Conns :
            LET d == IF InSink(c) THEN call[c].decl ELSE decl[c]
                ch == chan[c]
            IN /\ ~(ch.st = "closed" /\ pc[c] = "idle") => ch.rcpttos = d.rcpts
               /\ ch.smtp_state = "COMMAND" /\ ~InSink(c) => ch.received_lines = <<>>
               /\ ch.smtp_state = "DATA" => ch.mailfrom # "" /\ ch.rcpttos # <<>>
               /\ InSink(c) =>
                    /\ call[c].rcpttos = d.rcpts /\ call[c].rcpttos = ch.rcpttos
                    /\ call[c].mailfrom = ch.mailfrom /\ call[c].mailfrom # "")
    /\ [][\A c \in Conns :
            LET ch == chan[c]
                nw == chan'[c]
            IN /\ ch.mailfrom # "" => nw.mailfrom \in {ch.mailfrom, ""}
               /\ nw.rcpttos # ch.rcpttos =>
                    \/ /\ \E a \in Rcpts : nw.rcpttos = Append(ch.rcpttos, a)
                       /\ ch.mailfrom # "" /\ nw.mailfrom = ch.mailfrom
                       /\ ch.smtp_state = "COMMAND"
                    \/ /\ nw.rcpttos = <<>> /\ nw.mailfrom = ""
                       /\ nw.received_lines = <<>>]_vars

C16_Witness ==
    \E c \in Conns :
        /\ pc[c] = "post"
        /\ call[c].mailfrom = "a@x.com"
        /\ call[c].rcpttos = <<"c@y.com", "b@y.com">>
        /\ call[c].decl.from = {"a@x.com", "b@y.com"}

\* C17: the marker's handler calls process_message itself: the step that sees
\* the marker enters the call with the transaction untouched. While the call
\* is in progress the channel holds the sender and the recipients passed to
\* it and stays in the data state, nothing of the channel changes and no line
\* of the connection is taken. The data state is left for the command state
\* only by the reset after the return of a call whose block was printed and
\* whose line was appended; a call ends either so or with the channel closed
\* and its transaction as it was.
C17_ResetAfterSinkReturns ==
    /\ [](\A c \in Conns :
            InSink(c) =>
                /\ chan[c].smtp_state = "DATA"
                /\ chan[c].mailfrom = call[c].mailfrom /\ chan[c].mailfrom # ""
                /\ chan[c].rcpttos = call[c].rcpttos /\ chan[c].rcpttos # <<>>
                /\ pc[c] \in {"append", "post"} =>
                      \E i \in 1..Len(console) : console[i].id = call[c].id
                /\ pc[c] = "post" => \E i \in 1..Len(logf) : logf[i].id = call[c].id)
    /\ [][\A c \in Conns :
            LET ch == chan[c]
                nw == chan'[c]
            IN /\ ~InSink(c) /\ InSink(c)' =>
                    /\ pc'[c] = "trace" /\ sinkCalls' = sinkCalls + 1
                    /\ ch.smtp_state = "DATA"
                    /\ nw.mailfrom = ch.mailfrom /\ nw.rcpttos = ch.rcpttos
               /\ InSink(c) /\ InSink(c)' =>
                    /\ nw = ch /\ decl'[c] = decl[c] /\ nread'[c] = nread[c]
                    /\ markers' = markers /\ sinkCalls' = sinkCalls
               /\ InSink(c) /\ ~InSink(c)' =>
                    /\ decl'[c] = decl[c] /\ markers' = markers
                    /\ \/ /\ pc[c] = "post"
                          /\ nw.smtp_state = "COMMAND"
                          /\ nw.mailfrom = "" /\ nw.rcpttos = <<>>
                       \/ /\ pc[c] = "append" /\ logf' = logf
                          /\ nw.st = "closed"
                          /\ nw.mailfrom = ch.mailfrom /\ nw.rcpttos = ch.rcpttos
               /\ ch.smtp_state = "DATA" /\ nw.smtp_state = "COMMAND" =>
                    /\ pc[c] = "post"
                    /\ \E i \in 1..Len(console) : console[i].id = call[c].id
                    /\ \E i \in 1..Len(logf) : logf[i].id = call[c].id]_vars

\* the call is in progress within a recv() that may hold a further line
C17_Witness ==
    \E c \in Conns :
        /\ pc[c] = "post" /\ nread[c] = 1 /\ MaxChunk > 1
        /\ chan[c].st = "open" /\ chan[c].smtp_state = "DATA"
        /\ chan[c].mailfrom # "" /\ chan[c].rcpttos # <<>>

\* C18: the accept loop never waits for a session handler: while a session is
\* waiting for input or is executing process_message, the loop can accept a
\* new connection and can serve any other session whose peer has sent a line.
C18_AcceptLoopNeverBlocks ==
    \A c \in Conns :
        looping /\ chan[c].st = "open" /\ (pc[c] = "idle" \/ InSink(c)) =>
            \A d \in Conns \ {c} :
                /\ (chan[d].st = "none" /\ \A e \in Conns : e < d => chan[e].st # "none")
                      => ENABLED HandleAccept(d)
                /\ (chan[d].st = "open" /\ pc[d] = "idle" /\ PeerLines(d) # {})
                      => ENABLED HandleRead(d)

\* C19: within a call of process_message the block is printed before the line
\* is appended: the log never has more lines than the console has blocks,
\* every line of the log belongs to a message printed before it, in the same
\* order, and the step that appends a line finds its block on the console. A
\* call about to append has printed its block and has no line in the log; a
\* call whose append fails leaves the block on the console and the log as it
\* was, and a printed message without a line is one being appended or one
\* whose call did not return.
C19_TraceBeforeAppend ==
    /\ [](/\ Len(logf) <= Len(console)
          /\ \A i \in 1..Len(logf) :
                \E j \in i..Len(console) :
                    /\ console[j].id = logf[i].id
                    /\ console[j].tr.from = logf[i].entry.from
                    /\ console[j].tr.to = logf[i].entry.to
          /\ \A i, j \in 1..Len(logf) : i < j => logf[i].id < logf[j].id
          /\ \A i, j \in 1..Len(console) : i < j => console[i].id < console[j].id
          /\ \A c \in Conns :
                /\ pc[c] = "trace" =>
                      \A j \in 1..Len(console) : console[j].id # call[c].id
                /\ pc[c] = "append" =>
                      /\ console # <<>> /\ console[Len(console)].id = call[c].id
                      /\ \A i \in 1..Len(logf) : logf[i].id # call[c].id
          /\ \A j \in 1..Len(console) :
                (\A i \in 1..Len(logf) : logf[i].id # console[j].id) =>
                    /\ console[j].id \notin accepted
                    /\ \A c \in Conns : InSink(c) /\ call[c].id = console[j].id
                                            => pc[c] = "append")
    /\ [][/\ logf' # logf =>
                /\ console' = console
                /\ \E j \in 1..Len(console) : console[j].id = logf'[Len(logf')].id
           /\ \A c \in Conns :
                pc[c] = "append" /\ pc'[c] = "idle" =>
                    /\ logf' = logf /\ console' = console
                    /\ console[Len(console)].id = call[c].id
                    /\ chan'[c].st = "closed"]_vars

\* the append of the first message failed, the second message was captured
C19_Witness ==
    /\ Len(console) = 2 /\ Len(logf) = 1
    /\ logf[1].id = console[2].id
    /\ \A c \in Conns : pc[c] = "idle"
    /\ accepted = {console[2].id}

\* C20: the log is append-only: a step changes the log only if it is the
\* successful write of a call of process_message, and then the log is what it
\* was followed by the one line of that call; a successful write always adds
\* its line; every other step, of any handler, leaves the log as it was; no
\* call has two lines.
C20_LogAppendOnly ==
    /\ [](\A i, j \in 1..Len(logf) : i # j => logf[i].id # logf[j].id)
    /\ [][/\ logf' # logf =>
                \E c \in Conns :
                    /\ pc[c] = "append" /\ pc'[c] = "post"
                    /\ Len(logf') = Len(logf) + 1
                    /\ SubSeq(logf', 1, Len(logf)) = logf
                    /\ logf'[Len(logf')] =
                         [id |-> call[c].id,
                          entry |-> Entry(call[c].peer, call[c].mailfrom,
                                          call[c].rcpttos, call[c].data)]
           /\ \A d \in Conns :
                /\ pc[d] = "append" /\ pc'[d] = "post" => Len(logf') = Len(logf) + 1
                /\ pc[d] # "append" /\ pc'[d] # pc[d] => logf' = logf]_vars

\* the second line has just been appended behind the first
C20_Witness ==
    \E c \in Conns :
        /\ pc[c] = "post" /\ call[c].id = 2
        /\ Len(logf) = 2 /\ logf[1].id = 1 /\ logf[2].id = 2
        /\ 1 \in accepted

====
